---- MODULE Spec2Model ----
(***************************************************************************)
(* Model of lib/auth.js: the AuthContext singleton, its constructor, the   *)
(* login / authorize / renew / logout operations, the token getters and    *)
(* the handler of the exchange service's response.                         *)
(*                                                                         *)
(* A JavaScript string is a sequence of atoms.  An atom is either one of   *)
(* the characters the code treats specially ("#", "/", "&", "=", "+", " ", *)
(* "?"), a percent escape ("%20", "%2B", or the malformed "%"), or a run   *)
(* of ordinary characters ("id_token", "u1", ...).  The values null and    *)
(* undefined are one-atom sequences holding a reserved atom, so that every *)
(* JavaScript value the code compares is comparable in the model.          *)
(***************************************************************************)
EXTENDS Integers, Sequences, FiniteSets, TLC

\* ------------------------------------------------------------------ bounds
\* exchange requests that may be in flight at once
MaxPending == 1
\* distinct values the random identifier generator may return
NUuid == 2
\* latest value of the clock, in epoch seconds
MaxNow == 1
\* longest state value, in atoms
MaxStateLen == 3
\* most segments of a fragment
MaxPairs == 3

\* ------------------------------------------------------- JavaScript values
Null == <<"<null>">>
Undefined == <<"<undefined>">>
Empty == <<>>
S(a) == <<a>>

\* !x for a string-or-missing value
Falsy(x) == x = Null \/ x = Undefined \/ x = Empty

\* setItem and string concatenation convert their argument to a string
ToStr(x) == IF x = Null THEN S("null") ELSE IF x = Undefined THEN S("undefined") ELSE x

RECURSIVE TrimLeft(_)
TrimLeft(s) == IF s # Empty /\ Head(s) = " " THEN TrimLeft(Tail(s)) ELSE s

RECURSIVE TrimRight(_)
TrimRight(s) ==
    IF s # Empty /\ s[Len(s)] = " " THEN TrimRight(SubSeq(s, 1, Len(s) - 1)) ELSE s

\* String.prototype.trim
Trim(s) == TrimRight(TrimLeft(s))

\* !x || x.trim().length == 0
Blank(x) == Falsy(x) \/ Len(Trim(x)) = 0

\* index of the first occurrence of atom a in s, 0 when there is none
RECURSIVE IndexOf(_, _, _)
IndexOf(s, a, from) ==
    IF from > Len(s) THEN 0
    ELSE IF s[from] = a THEN from
    ELSE IndexOf(s, a, from + 1)

\* s.split(a)[0]
SplitFirst(s, a) ==
    LET i == IndexOf(s, a, 1) IN IF i = 0 THEN s ELSE SubSeq(s, 1, i - 1)

\* ----------------------------------------------------- CONSTANTS, lines 66-83
ERROR_DESCRIPTION == S("error_description")
ACCESS_TOKEN == S("auth_token")
ID_TOKEN == S("id_token")

STATE_LOGIN == "azure.state.login"
NONCE_IDTOKEN == "azure.nonce.idtoken"
LOGIN_REQUEST == "azure.login.request"
STORAGE_ERROR == "azure.error"
STORAGE_ERROR_DESCRIPTION == "azure.error.description"
USER_TOKEN == "user_token"
USER_OBJ == "user_obj"
TOKEN_EXPIRATION == "token_exp"

STORAGE ==
    { STATE_LOGIN, NONCE_IDTOKEN, LOGIN_REQUEST, STORAGE_ERROR,
      STORAGE_ERROR_DESCRIPTION, USER_TOKEN, USER_OBJ, TOKEN_EXPIRATION }

REQUEST_TYPE == [LOGIN |-> "LOGIN", RENEW_TOKEN |-> "RENEW", UNKNOWN |-> "UNKNOWN"]

\* ------------------------------------------------------------- the host page
\* the address of the application's page
PageUrl == <<"https", ":", "/", "/", "app", "/", "page">>

\* the values window.location.href may have when the code reads it
Hrefs == { PageUrl, PageUrl \o <<"?", "q", "=", "1", "#", "/", "home">> }

\* The host environments: whether the page's global scope binds the
\* identifier logoutGlobalAzure (and to what), and whether each browser store
\* is usable ("ok"), missing from window ("absent") or refuses writes
\* ("throws").
Envs ==
    { [global |-> "unbound", local |-> "ok", session |-> "ok"],
      [global |-> "name", local |-> "ok", session |-> "ok"],
      [global |-> "other", local |-> "ok", session |-> "ok"],
      [global |-> "name", local |-> "absent", session |-> "ok"],
      [global |-> "name", local |-> "ok", session |-> "throws"] }

EmptyStore == [k \in STORAGE |-> Null]

\* ------------------------------------------------------------ configurations
Config(tenant, app, login, renew, cache, lga) ==
    [ azureTenant |-> tenant, azureAppID |-> app,
      authorizationServiceLoginUri |-> login,
      authorizationServiceRenewUri |-> renew,
      azureInstance |-> Undefined,
      azureLoginRedirectUri |-> Undefined,
      azureLogoutRedirectUri |-> Undefined,
      cacheLocation |-> cache,
      logoutGlobalAzure |-> lga,
      authorizationContexts |-> S("ctx1"),
      state |-> Undefined ]

LoginUri == <<"https", ":", "/", "/", "svc", "/", "login">>
RenewUri == <<"https", ":", "/", "/", "svc", "/", "renew">>

\* the object {} that "config || {}" yields for a missing configuration
NoConfig ==
    [Config(Undefined, Undefined, Undefined, Undefined, Undefined, "absent")
        EXCEPT !.authorizationContexts = Undefined]

GoodConfig == Config(S("t1"), S("a1"), LoginUri, RenewUri, Undefined, "absent")

\* the configurations a caller passes to the constructor
Configs ==
    { GoodConfig,
      [GoodConfig EXCEPT !.azureInstance = <<"https", ":", "/", "/", "login.example", "/">>,
                         !.azureLoginRedirectUri = <<"https", ":", "/", "/", "app", "/", "in">>,
                         !.azureLogoutRedirectUri = <<"https", ":", "/", "/", "app", "/", "out">>,
                         !.cacheLocation = S("sessionStorage"),
                         !.logoutGlobalAzure = "true"],
      [GoodConfig EXCEPT !.azureTenant = Undefined],
      [GoodConfig EXCEPT !.azureAppID = <<" ", " ">>],
      [GoodConfig EXCEPT !.authorizationServiceLoginUri = Empty],
      [GoodConfig EXCEPT !.authorizationServiceRenewUri = Undefined],
      [GoodConfig EXCEPT !.authorizationServiceRenewUri = <<" ">>],
      NoConfig }

\* cacheLocation.substring(0, 5).toLowerCase() === 'local', by the first atom
StartsWithLocal(s) ==
    s # Empty /\ s[1] \in {"localStorage", "LocalStorage", "local", "LOCAL"}


\* --------------------------------------------------------------------- state
VARIABLES
    env,        \* the host environment of this browser (an element of Envs)
    stores,     \* localStorage and sessionStorage: key -> string or Null
    singleton,  \* AuthContext.prototype._singleton: 0 when unset, 1 for the first
                \* object constructed on this page, 2 for a later one
    ref,        \* the object a constructor call last returned to the caller, 0 if none
    ctx,        \* the fields of the object registered as the singleton
    pending,    \* exchange requests sent and not yet answered
    last,       \* what the most recent call did: result, storage accesses, effects
    other       \* the page of a second tab of this browser, in the background:
                \* its singleton, ref, ctx and pending

vars == <<env, stores, singleton, ref, ctx, pending, last, other>>

\* the fields of an object on which the constructor body has not run
NoCtx ==
    [ config |-> NoConfig, actionInProgress |-> FALSE, storage |-> "none",
      idTokenNonce |-> Undefined ]

\* a tab in which no page of the application has run yet
NoTab == [singleton |-> 0, ref |-> 0, ctx |-> NoCtx, pending |-> <<>>]

\* The run of one call: the stores and the object as the call has left them so
\* far, the storage accesses made, the callback invocations, the requests sent,
\* the navigations made, and the exception that ended the call ("none" if it
\* has not thrown).
Run(st, c) ==
    [ stores |-> st, ctx |-> c, access |-> <<>>, cbs |-> <<>>, posts |-> <<>>,
      navs |-> <<>>, threw |-> "none" ]

Throw(m, e) == IF m.threw # "none" THEN m ELSE [m EXCEPT !.threw = e]

\* _store, lines 522-524; a call on an object without _storage is a TypeError
Store(m, key, value) ==
    IF m.threw # "none" THEN m
    ELSE IF m.ctx.storage = "none" THEN Throw(m, "TypeError")
    ELSE [m EXCEPT !.stores[m.ctx.storage][key] = ToStr(value),
                   !.access = Append(@, <<m.ctx.storage, "setItem", key>>)]

\* _get, lines 532-534: the value read (Null for a key that is not stored)
GetValue(m, key) ==
    IF key \in STORAGE THEN m.stores[m.ctx.storage][key] ELSE Null

\* _get, lines 532-534: the run after the read
Get(m, key) ==
    IF m.threw # "none" THEN m
    ELSE IF m.ctx.storage = "none" THEN Throw(m, "TypeError")
    ELSE [m EXCEPT !.access = Append(@, <<m.ctx.storage, "getItem", key>>)]

\* _purge, lines 541-543
Purge(m, key) ==
    IF m.threw # "none" THEN m
    ELSE IF m.ctx.storage = "none" THEN Throw(m, "TypeError")
    ELSE [m EXCEPT !.stores[m.ctx.storage] =
                        [k \in STORAGE |-> IF k = key THEN Null ELSE @[k]],
                   !.access = Append(@, <<m.ctx.storage, "removeItem", key>>)]

\* _supportsLocalStorage / _supportsSessionStorage: the probe's accesses
Probe(m, which) ==
    IF env[which] = "absent" THEN m
    ELSE IF env[which] = "throws"
    THEN [m EXCEPT !.access = Append(@, <<which, "setItem", "storageTest">>)]
    ELSE [m EXCEPT !.access = @ \o << <<which, "setItem", "storageTest">>,
                                      <<which, "removeItem", "storageTest">> >>]

\* _supportsLocalStorage / _supportsSessionStorage: the probe's verdict
Supports(which) == env[which] = "ok"

\* ------------------------------------------------ constructor, lines 95-158
\* Validate without its last check
ValidateWithoutRenew(c) ==
    IF Blank(c.azureTenant) THEN "Tenant must be defined"
    ELSE IF Blank(c.azureAppID) THEN "An App Id must be supplied"
    ELSE IF Falsy(c.authorizationServiceLoginUri)
    THEN "Authorization Service login endpoint is required"
    ELSE "none"

\* required fields, lines 99-114: the message thrown, "none" when all are set
Validate(c) ==
    IF Blank(c.azureTenant) THEN "Tenant must be defined"
    ELSE IF Blank(c.azureAppID) THEN "An App Id must be supplied"
    ELSE IF Falsy(c.authorizationServiceLoginUri)
    THEN "Authorization Service login endpoint is required"
    ELSE IF Falsy(c.authorizationServiceRenewUri)
    THEN "Authorization Service renew endpoint is required"
    ELSE "none"

DefaultInstance == <<"https", ":", "/", "/", "login.microsoftonline.com", "/">>

\* window.location.href.split("?")[0].split("#")[0]
CurrentPage(href) == SplitFirst(SplitFirst(href, "?"), "#")

\* defaults, lines 116-138
Defaults(c, href) ==
    [c EXCEPT
        !.azureInstance = IF Blank(@) THEN DefaultInstance ELSE @,
        !.azureLoginRedirectUri = IF Falsy(@) THEN CurrentPage(href) ELSE @,
        !.azureLogoutRedirectUri = IF Falsy(@) THEN CurrentPage(href) ELSE @,
        !.cacheLocation = IF Blank(@) THEN S("localStorage") ELSE @]

\* lines 140-142: config.hasOwnProperty(logoutGlobalAzure), the argument being
\* the value of the global identifier of that name
DefaultLogoutGlobal(c) ==
    IF env.global = "name" /\ c.logoutGlobalAzure # "absent" THEN c
    ELSE [c EXCEPT !.logoutGlobalAzure = "false"]

\* the backend chosen at line 145
Backend(c) == IF StartsWithLocal(c.cacheLocation) THEN "local" ELSE "session"

\* storage selection, lines 144-157
SelectStorage(m) ==
    LET which == Backend(m.ctx.config)
        p == Probe(m, which)
    IN  IF Supports(which) THEN [p EXCEPT !.ctx.storage = which]
        ELSE Throw(p, IF which = "local" THEN "local storage is not supported"
                      ELSE "session storage is not supported")

\* the constructor body on a fresh object, lines 95-158
ConstructorBody(config, href) ==
    LET c0 == config  \* config || {}: a missing configuration is NoConfig
        m0 == Run(stores, [NoCtx EXCEPT !.config = c0])
        v == Validate(c0)
        m1 == [m0 EXCEPT !.ctx.config = Defaults(c0, href)]
        m2 == [m1 EXCEPT !.ctx.config = DefaultLogoutGlobal(@)]
    IN  IF v # "none" THEN Throw(m0, v)
        ELSE IF env.global = "unbound" THEN Throw(m1, "ReferenceError")
        ELSE SelectStorage(m2)

\* the constructor without its singleton check
ReturnsSingletonNever == FALSE

\* the singleton check, lines 89-91: is the registered instance returned?
ReturnsSingleton == singleton # 0

\* the object the running constructor call was given as "this"
ThisObject == IF singleton = 0 THEN 1 ELSE 2

Observe(op, arg, m, ret) ==
    [ op |-> op, arg |-> arg, threw |-> m.threw, ret |-> ret,
      access |-> m.access, cbs |-> m.cbs, posts |-> m.posts, navs |-> m.navs ]

NewArg(config, href) == [config |-> config, href |-> href, this |-> ThisObject]

\* new AuthContext(config), lines 50-158, on a page whose location is href
New(config, href) ==
    /\ IF ReturnsSingleton
       THEN /\ ref' = singleton
            /\ last' = Observe("new", NewArg(config, href), Run(stores, ctx), singleton)
            /\ UNCHANGED <<singleton, ctx>>
       ELSE LET m == ConstructorBody(config, href) IN
            /\ singleton' = ThisObject
            /\ ctx' = m.ctx
            /\ ref' = IF m.threw = "none" THEN ThisObject ELSE ref
            /\ last' = Observe("new", NewArg(config, href), m,
                               IF m.threw = "none" THEN ThisObject ELSE 0)
    /\ UNCHANGED <<env, stores, pending, other>>


\* ------------------------------------------------- _uuid, lines 632-689
\* the identifiers the generator may return on one call

Uuid(i) == S("u" \o ToString(i))

\* the results of two successive calls of the generator: a sample of the
\* pairs of distinct identifiers
UuidPairs == { <<Uuid(i), Uuid((i % NUuid) + 1)>> : i \in 1..NUuid }

\* largest value of an element of the Uint8Array, line 635
MaxByte == 255

\* largest value of Math.random() * 16 | 0, line 683
MaxDigit == 15

RECURSIVE BitAnd(_, _)
BitAnd(a, b) ==
    IF a = 0 \/ b = 0 THEN 0
    ELSE (a % 2) * (b % 2) + 2 * BitAnd(a \div 2, b \div 2)

RECURSIVE BitOr(_, _)
BitOr(a, b) ==
    IF a = 0 THEN b
    ELSE IF b = 0 THEN a
    ELSE (IF a % 2 = 1 \/ b % 2 = 1 THEN 1 ELSE 0) + 2 * BitOr(a \div 2, b \div 2)

HexDigits ==
    <<"0", "1", "2", "3", "4", "5", "6", "7", "8", "9", "a", "b", "c", "d", "e", "f">>

\* number.toString(16), one atom per character
RECURSIVE ToString16(_)
ToString16(n) ==
    IF n < 16 THEN <<HexDigits[n + 1]>>
    ELSE ToString16(n \div 16) \o <<HexDigits[(n % 16) + 1]>>

\* decimal2Hex without the padding loop
Decimal2HexUnpadded(number) == ToString16(number)

\* decimal2Hex, lines 637-643
Decimal2Hex(number) ==
    LET hex == ToString16(number) IN
    IF Len(hex) < 2 THEN <<"0">> \o hex ELSE hex

\* the buffer after lines 652-656
Finagle(buffer) ==
    [i \in DOMAIN buffer |->
        IF i = 6 THEN BitAnd(BitOr(buffer[i], 64), 79)
        ELSE IF i = 8 THEN BitAnd(BitOr(buffer[i], 128), 191)
        ELSE buffer[i]]

\* the secure path, lines 635-673, on the random bytes buffer[0..15]
UuidSecure(buffer) ==
    LET b == Finagle(buffer)
        h(i) == Decimal2Hex(b[i])
    IN  h(0) \o h(1) \o h(2) \o h(3) \o <<"-">> \o h(4) \o h(5) \o <<"-">>
        \o h(6) \o h(7) \o <<"-">> \o h(8) \o h(9) \o <<"-">>
        \o h(10) \o h(11) \o h(12) \o h(13) \o h(14) \o h(15)

\* the template of line 687
Template ==
    <<"x", "x", "x", "x", "x", "x", "x", "x", "-", "x", "x", "x", "x", "-",
      "4", "x", "x", "x", "-", "y", "x", "x", "x", "-",
      "x", "x", "x", "x", "x", "x", "x", "x", "x", "x", "x", "x">>

\* uuid4rnd, lines 682-685, when Math.random() * 16 | 0 is r
Uuid4Rnd(x, r) == ToString16(IF x = "x" THEN r ELSE BitOr(BitAnd(r, 3), 8))

\* the number of x and y among the first i characters of the template
RECURSIVE Replaced(_)
Replaced(i) ==
    IF i = 0 THEN 0
    ELSE Replaced(i - 1) + (IF Template[i] \in {"x", "y"} THEN 1 ELSE 0)

\* the fallback path, lines 682-687: the k-th replaced character draws rnd[k]
UuidFallback(rnd) ==
    [i \in 1..Len(Template) |->
        IF Template[i] \in {"x", "y"}
        THEN Uuid4Rnd(Template[i], rnd[Replaced(i)])[1]
        ELSE Template[i]]

\* bytes around the bit patterns the generator forces
ByteSample == {0, 15, 16, 64, 79, 128, 191, MaxByte}

\* the random bytes getRandomValues may deliver: bytes 6 and 8 range over all
\* values, one of them at a time, the others follow rest
Buffers ==
    { [i \in 0..15 |-> IF i = 6 THEN b6 ELSE IF i = 8 THEN b8
                        ELSE (rest + 17 * i) % (MaxByte + 1)] :
      b6 \in 0..MaxByte, b8 \in ByteSample, rest \in {0, 9} }
    \cup
    { [i \in 0..15 |-> IF i = 6 THEN b6 ELSE IF i = 8 THEN b8
                        ELSE (rest + 17 * i) % (MaxByte + 1)] :
      b6 \in ByteSample, b8 \in 0..MaxByte, rest \in {0, 9} }

\* the digits Math.random may deliver to the 31 replacements
RandomDigits ==
    { [k \in 1..31 |-> IF k = 16 THEN ry ELSE (rx + k) % (MaxDigit + 1)] :
      rx \in 0..MaxDigit, ry \in 0..MaxDigit }

\* _uuid, lines 632-689, on a host with or without window.crypto
GenerateUuid ==
    /\ last.op = "random"
    /\ last' = [last EXCEPT
                   !.op = "uuid",
                   !.ret = IF last.arg.crypto THEN UuidSecure(last.arg.random)
                           ELSE UuidFallback(last.arg.random)]
    /\ UNCHANGED <<env, stores, singleton, ref, ctx, pending, other>>

\* ------------------------------------- fragment parsing, lines 364-449
False == <<"<false>">>

\* _getHash, lines 364-372
RECURSIVE IndexOfHashSlash(_, _)
IndexOfHashSlash(h, from) ==
    IF from + 1 > Len(h) THEN 0
    ELSE IF h[from] = "#" /\ h[from + 1] = "/" THEN from
    ELSE IndexOfHashSlash(h, from + 1)

GetHash(h) ==
    LET i == IndexOfHashSlash(h, 1) IN
    IF i > 0 THEN SubSeq(h, i + 2, Len(h))
    ELSE IF IndexOf(h, "#", 1) > 0 THEN SubSeq(h, 2, Len(h))
    ELSE h

\* decodeURIComponent(s.replace(/\+/g, ' ')), lines 439-441, atom by atom
DecodeAtom(a) ==
    CASE a = "+" -> " "
      [] a = "%20" -> " "
      [] a = "%2B" -> "+"
      [] a = "%26" -> "&"
      [] a = "%3D" -> "="
      [] a = "%2F" -> "/"
      [] a = "%3A" -> ":"
      [] a = "%3F" -> "?"
      [] a = "%23" -> "#"
      [] OTHER -> a

\* a malformed escape makes decodeURIComponent throw URIError
Malformed(s) == \E i \in 1..Len(s) : s[i] = "%"

Decode(s) == [i \in 1..Len(s) |-> DecodeAtom(s[i])]

Special(a) == a = "&" \/ a = "="

\* first index >= from holding one of "&" and "=", Len(data) + 1 if none
RECURSIVE RunEnd(_, _)
RunEnd(data, from) ==
    IF from > Len(data) \/ Special(data[from]) THEN from ELSE RunEnd(data, from + 1)

\* first index >= from holding "&", Len(data) + 1 if none
RECURSIVE ValueEnd(_, _)
ValueEnd(data, from) ==
    IF from > Len(data) \/ data[from] = "&" THEN from ELSE ValueEnd(data, from + 1)

\* search.exec(data) from position from: the leftmost match of
\* /([^&=]+)=([^&]*)/, as [ks, ke, ve] (key at ks..ke, value at ke+2..ve),
\* ks = 0 when there is no further match
RECURSIVE Exec(_, _)
Exec(data, from) ==
    IF from > Len(data) THEN [ks |-> 0, ke |-> 0, ve |-> 0]
    ELSE IF Special(data[from]) THEN Exec(data, from + 1)
    ELSE LET e == RunEnd(data, from) IN
         IF e <= Len(data) /\ data[e] = "="
         THEN [ks |-> from, ke |-> e - 1, ve |-> ValueEnd(data, e + 1) - 1]
         ELSE Exec(data, e)

\* the assignment keeping the value a key already has
PutKeepsFirst(obj, k, v) ==
    [x \in DOMAIN obj \cup {k} |-> IF x \in DOMAIN obj THEN obj[x] ELSE v]

Put(obj, k, v) == [x \in DOMAIN obj \cup {k} |-> IF x = k THEN v ELSE obj[x]]

\* the loop of _deserialize, lines 443-447: [threw, obj]
RECURSIVE DeserializeFrom(_, _, _)
DeserializeFrom(data, from, obj) ==
    LET match == Exec(data, from) IN
    IF match.ks = 0 THEN [threw |-> "none", obj |-> obj]
    ELSE LET k == SubSeq(data, match.ks, match.ke)
             v == SubSeq(data, match.ke + 2, match.ve)
         IN  IF Malformed(k) \/ Malformed(v) THEN [threw |-> "URIError", obj |-> obj]
             ELSE DeserializeFrom(data, match.ve + 1, Put(obj, Decode(k), Decode(v)))

\* _deserialize, lines 435-449
Deserialize(data) == DeserializeFrom(data, 1, <<>>)

Has(obj, k) == k \in DOMAIN obj

\* obj[k], undefined for a key the object does not have
Field(obj, k) == IF Has(obj, k) THEN obj[k] ELSE Undefined

\* _isCallback taking every fragment for a provider response
IsCallbackAlways(obj) == TRUE

\* _isCallback, lines 423-427
IsCallback(obj) ==
    Has(obj, ERROR_DESCRIPTION) \/ Has(obj, ACCESS_TOKEN) \/ Has(obj, ID_TOKEN)

\* line 407 without the comparison
StateMatchesAlways(stateResponse, persisted) == TRUE

\* the comparison of line 407
StateMatches(stateResponse, persisted) == stateResponse = persisted

\* _getRequestInfo taking every response that carries a state for a login
RequestInfoLoginAlways(m, obj) ==
    LET none == [ valid |-> FALSE, stateMatch |-> FALSE, stateResponse |-> Empty,
                  requestType |-> REQUEST_TYPE.UNKNOWN ]
    IN  IF ~IsCallback(obj) THEN none
        ELSE IF ~Has(obj, S("state")) THEN [none EXCEPT !.valid = TRUE]
        ELSE [ valid |-> TRUE,
               stateMatch |-> m.ctx.storage # "none"
                              /\ StateMatches(obj[S("state")], GetValue(m, STATE_LOGIN)),
               stateResponse |-> obj[S("state")],
               requestType |-> REQUEST_TYPE.LOGIN ]

\* _getRequestInfo, lines 380-415: the requestInfo it attaches
RequestInfo(m, obj) ==
    LET none == [ valid |-> FALSE, stateMatch |-> FALSE, stateResponse |-> Empty,
                  requestType |-> REQUEST_TYPE.UNKNOWN ]
    IN  IF ~IsCallback(obj) THEN none
        ELSE IF ~Has(obj, S("state")) THEN [none EXCEPT !.valid = TRUE]
        ELSE IF m.ctx.storage # "none"
                /\ StateMatches(obj[S("state")], GetValue(m, STATE_LOGIN))
        THEN [ valid |-> TRUE, stateMatch |-> TRUE, stateResponse |-> obj[S("state")],
               requestType |-> REQUEST_TYPE.LOGIN ]
        ELSE [none EXCEPT !.valid = TRUE, !.stateResponse = obj[S("state")]]

\* _getRequestInfo, lines 380-415: the run after it (the read of line 407)
GetRequestInfo(m, obj) ==
    IF IsCallback(obj) /\ Has(obj, S("state")) THEN Get(m, STATE_LOGIN) ELSE m


\* ------------------------------------------------ effects of a call
\* callback(err, token)
Callback(m, err, token) ==
    IF m.threw # "none" THEN m ELSE [m EXCEPT !.cbs = Append(@, <<err, token>>)]

\* xhr.open("POST", url, true); xhr.send(JSON.stringify({authorization_token,
\* contexts})): the request, with the number of times the call's callback has
\* already been invoked when it is sent
Post(m, url, token, contexts) ==
    IF m.threw # "none" THEN m
    ELSE [m EXCEPT !.posts = Append(@,
            [ url |-> url, authorization_token |-> token, contexts |-> contexts,
              cbBefore |-> Len(m.cbs) ])]

\* _prompt, lines 457-463
Prompt(m, url) ==
    IF m.threw # "none" THEN m
    ELSE IF Falsy(url) THEN Throw(m, "Invalid url")
    ELSE [m EXCEPT !.navs = Append(@, url)]

NoCallbackMessage ==
    "A callback function must be supplied due to the async nature of this function"

\* --------------------------------------------- authorize, lines 166-223
\* the error branch reporting the error to the callback as well
AuthorizeErrorCallsBack(m, obj, ri) ==
    LET m2 == Store(Store(m, STORAGE_ERROR, Field(obj, S("error"))),
                    STORAGE_ERROR_DESCRIPTION, obj[ERROR_DESCRIPTION])
        m3 == Callback(m2, obj[ERROR_DESCRIPTION], Null)
    IN  IF m3.threw = "none" /\ ri.requestType = REQUEST_TYPE.LOGIN
        THEN [m3 EXCEPT !.ctx.actionInProgress = FALSE] ELSE m3

\* the error branch, lines 181-188
AuthorizeError(m, obj, ri) ==
    LET m2 == Store(Store(m, STORAGE_ERROR, Field(obj, S("error"))),
                    STORAGE_ERROR_DESCRIPTION, obj[ERROR_DESCRIPTION])
    IN  IF m2.threw = "none" /\ ri.requestType = REQUEST_TYPE.LOGIN
        THEN [m2 EXCEPT !.ctx.actionInProgress = FALSE] ELSE m2

\* the exchange branch sending the token without the contexts
AuthorizeExchangeNoContexts(m, obj) ==
    Post(m, m.ctx.config.authorizationServiceLoginUri, Field(obj, ID_TOKEN), Undefined)

\* the exchange branch, lines 191-212
AuthorizeExchange(m, obj) ==
    LET azureToken == Field(obj, ID_TOKEN)
        m2 == IF Falsy(azureToken)
              THEN Callback(m, S("authorization not available"), False) ELSE m
    IN  Post(m2, m.ctx.config.authorizationServiceLoginUri, azureToken,
             m.ctx.config.authorizationContexts)

\* the state-mismatch branch reporting the mismatch to the callback
AuthorizeMismatchCallsBack(m, ri) ==
    Callback(Store(Store(m, STORAGE_ERROR, S("Invalid State")),
                   STORAGE_ERROR_DESCRIPTION,
                   S("Invalid State, state: ") \o ri.stateResponse),
             S("Invalid State"), Null)

\* the state-mismatch branch clearing the flag whatever the request type
AuthorizeMismatchClearsFlag(m, ri) ==
    LET m2 == Store(Store(m, STORAGE_ERROR, S("Invalid State")),
                    STORAGE_ERROR_DESCRIPTION,
                    S("Invalid State, state: ") \o ri.stateResponse)
    IN  IF m2.threw = "none"
        THEN [m2 EXCEPT !.ctx.actionInProgress = FALSE] ELSE m2

\* the state-mismatch branch, lines 213-220
AuthorizeMismatch(m, ri) ==
    LET m2 == Store(Store(m, STORAGE_ERROR, S("Invalid State")),
                    STORAGE_ERROR_DESCRIPTION,
                    S("Invalid State, state: ") \o ri.stateResponse)
    IN  IF m2.threw = "none" /\ ri.requestType = REQUEST_TYPE.LOGIN
        THEN [m2 EXCEPT !.ctx.actionInProgress = FALSE] ELSE m2

\* authorize(callback) on a page whose window.location.hash is h
AuthorizeRun(h, callback) ==
    LET m0 == Run(stores, ctx)
        d == Deserialize(GetHash(h))
        obj == d.obj
        ri == RequestInfo(m0, obj)
        m1 == GetRequestInfo(m0, obj)
    IN  IF ~callback THEN Throw(m0, NoCallbackMessage)
        ELSE IF d.threw # "none" THEN Throw(m0, d.threw)
        ELSE IF ~IsCallback(obj) THEN m0
        ELSE IF m1.threw # "none" THEN m1
        ELSE IF Has(obj, ERROR_DESCRIPTION) THEN AuthorizeError(m1, obj, ri)
        ELSE IF ri.stateMatch THEN AuthorizeExchange(m1, obj)
        ELSE AuthorizeMismatch(m1, ri)

\* ------------------------------------------------- renew, lines 229-268
\* line 250: this._config is never assigned, so reading _config.urls throws
ReadConfigUrls(m) == Throw(m, "TypeError")

\* renew raising the flag before it looks at its callback
RenewRunFlagFirst(callback) ==
    LET m0 == Run(stores, ctx)
        m1 == [m0 EXCEPT !.ctx.actionInProgress = TRUE]
        m2 == Get(m1, "undefined")
        token == GetValue(m1, "undefined")
        m3 == IF Falsy(token)
              THEN Callback(m2, S("authorization token not found"), Null) ELSE m2
        m4 == ReadConfigUrls(m3)
    IN  IF ~callback THEN Throw(m1, NoCallbackMessage)
        ELSE Post(m4, m0.ctx.config.authorizationServiceRenewUri, token, Undefined)

RenewRun(callback) ==
    LET m0 == Run(stores, ctx)
        m1 == [m0 EXCEPT !.ctx.actionInProgress = TRUE]
        \* line 238 reads CONSTANTS.USER_TOKEN, which is undefined
        m2 == Get(m1, "undefined")
        token == GetValue(m1, "undefined")
        m3 == IF Falsy(token)
              THEN Callback(m2, S("authorization token not found"), Null) ELSE m2
        m4 == ReadConfigUrls(m3)
    IN  IF ~callback THEN Throw(m0, NoCallbackMessage)
        ELSE Post(m4, m0.ctx.config.authorizationServiceRenewUri, token, Undefined)

\* ------------------------------------------------- login, lines 274-292
\* an encoding that leaves the plus sign as it is
EncodeAtomKeepsPlus(a) ==
    CASE a = " " -> "%20"
      [] a = "&" -> "%26"
      [] a = "=" -> "%3D"
      [] a = "/" -> "%2F"
      [] a = ":" -> "%3A"
      [] a = "?" -> "%3F"
      [] a = "#" -> "%23"
      [] OTHER -> a

\* encodeURIComponent, atom by atom
EncodeAtom(a) ==
    CASE a = " " -> "%20"
      [] a = "+" -> "%2B"
      [] a = "&" -> "%26"
      [] a = "=" -> "%3D"
      [] a = "/" -> "%2F"
      [] a = ":" -> "%3A"
      [] a = "?" -> "%3F"
      [] a = "#" -> "%23"
      [] OTHER -> a

Encode(s) == [i \in 1..Len(s) |-> EncodeAtom(s[i])]

\* the params argument: <<>> for null, <<object>> for an object
NullParams == <<>>

\* the params of a caller that supplies its own request id
Params(c, state, azureRequestId) ==
    << [ azureAppID |-> c.azureAppID,
         azureLoginRedirectUri |-> c.azureLoginRedirectUri,
         state |-> state, azureRequestId |-> azureRequestId ] >>

\* _generateAzureLoginURL, lines 472-501: [threw, url].  Reading a property of
\* a null params throws; so does the call of this._guid, which is not defined,
\* when params carries no azureRequestId (no params here carries slice or
\* additionalQueryParameter).
GenerateAzureLoginURL(c, responseType, params, resource) ==
    IF params = NullParams THEN [threw |-> "TypeError", url |-> Empty]
    ELSE LET pr == params[1]
             qs == <<"?", "response_type", "=", responseType>>
                   \o <<"&", "client_id", "=">> \o Encode(ToStr(pr.azureAppID))
                   \o (IF Falsy(resource) THEN Empty
                       ELSE <<"&", "resource", "=">> \o Encode(resource))
                   \o <<"&", "redirect_uri", "=">>
                   \o Encode(ToStr(pr.azureLoginRedirectUri))
                   \o <<"&", "state", "=">> \o Encode(ToStr(pr.state))
         IN  IF Falsy(pr.azureRequestId) THEN [threw |-> "TypeError", url |-> Empty]
             ELSE [threw |-> "none",
                   url |-> c.azureInstance \o c.azureTenant
                           \o <<"/", "oauth2", "/", "authorize">> \o qs
                           \o <<"&", "client-request-id", "=">>
                           \o Encode(ToStr(pr.azureRequestId))]

StartPages == { Undefined, <<"https", ":", "/", "/", "app", "/", "start">> }

\* login without its in-progress check
SuppressedNever(c) == FALSE

\* is the call suppressed, lines 275-278
Suppressed(c) == c.actionInProgress

\* login keeping a login state that is already persisted
LoginRunKeepsState(startPage, href, expectedState, nonce) ==
    LET m0 == Run(stores, ctx)
        m1 == [m0 EXCEPT !.ctx.config.state = expectedState,
                         !.ctx.idTokenNonce = nonce]
        m2 == Store(m1, LOGIN_REQUEST,
                    IF Falsy(startPage) THEN href ELSE startPage)
        m3 == IF m2.threw = "none" /\ GetValue(m2, STATE_LOGIN) # Null THEN m2
              ELSE Store(m2, STATE_LOGIN, expectedState)
        m4 == Store(m3, NONCE_IDTOKEN, nonce)
        m5 == Store(m4, STORAGE_ERROR, Empty)
        m6 == Store(m5, STORAGE_ERROR_DESCRIPTION, Empty)
        g == GenerateAzureLoginURL(m6.ctx.config, "id_token", NullParams, Undefined)
        m7 == IF g.threw # "none" THEN Throw(m6, g.threw) ELSE m6
        m8 == IF m7.threw = "none"
              THEN [m7 EXCEPT !.ctx.actionInProgress = TRUE] ELSE m7
    IN  IF Suppressed(ctx) THEN m0
        ELSE Prompt(m8, g.url \o <<"&", "nonce", "=">> \o Encode(nonce))

\* login(startPage) on a page whose location is href, the generator returning
\* expectedState and then nonce
LoginRun(startPage, href, expectedState, nonce) ==
    LET m0 == Run(stores, ctx)
        m1 == [m0 EXCEPT !.ctx.config.state = expectedState,
                         !.ctx.idTokenNonce = nonce]
        m2 == Store(m1, LOGIN_REQUEST,
                    IF Falsy(startPage) THEN href ELSE startPage)
        m3 == Store(m2, STATE_LOGIN, expectedState)
        m4 == Store(m3, NONCE_IDTOKEN, nonce)
        m5 == Store(m4, STORAGE_ERROR, Empty)
        m6 == Store(m5, STORAGE_ERROR_DESCRIPTION, Empty)
        g == GenerateAzureLoginURL(m6.ctx.config, "id_token", NullParams, Undefined)
        m7 == IF g.threw # "none" THEN Throw(m6, g.threw) ELSE m6
        m8 == IF m7.threw = "none"
              THEN [m7 EXCEPT !.ctx.actionInProgress = TRUE] ELSE m7
    IN  IF Suppressed(ctx) THEN m0
        ELSE Prompt(m8, g.url \o <<"&", "nonce", "=">> \o Encode(nonce))


\* ------------------------------ _handleServiceResponse, lines 589-602
\* A response body: empty, not JSON, or a JSON object with an optional token
\* and an optional user object with an optional exp.
Body(kind, token, user, exp) == [kind |-> kind, token |-> token, user |-> user, exp |-> exp]

Bodies ==
    { Body("empty", Undefined, "absent", 0),
      Body("invalid", Undefined, "absent", 0),
      Body("json", S("T1"), "object", 1),
      Body("json", S("T2"), "object", MaxNow + 1),
      Body("json", S("T2"), "absent", 0),
      Body("json", S("T1"), "noexp", 0) }

\* the answers of the exchange service: <<status, body>>
Responses ==
    ({200} \X Bodies)
    \cup ({500} \X { b \in Bodies : b.kind = "empty" \/ b.token = S("T1") })

\* JSON.stringify(resp.user)
UserJson(exp) == S("{\"exp\":" \o ToString(exp) \o "}")

\* resp.user.exp.toString()
ExpString(exp) == S(ToString(exp))

FailureMessage == S("Authorization token could not be acquired")

\* the branch taken whatever the status
SucceededAnyStatus(status, respBody) == respBody.kind # "empty"

\* the branch of line 590
Succeeded(status, respBody) == status = 200 /\ respBody.kind # "empty"

\* the handler without the write of the expiry
HandleServiceResponseNoExpiry(m, status, respBody) ==
    LET m2 == Store(m, USER_TOKEN, respBody.token)
        m5 == Store(m2, USER_OBJ, UserJson(respBody.exp))
        r == IF Succeeded(status, respBody) /\ respBody.kind # "invalid"
                /\ respBody.user = "object"
             THEN Callback(m5, Null, respBody.token)
             ELSE Callback(m, FailureMessage, Null)
    IN  [r EXCEPT !.ctx.actionInProgress = FALSE]

\* the handler consuming the login state once the exchange has succeeded
HandleServiceResponseConsumesState(m, status, respBody) ==
    LET m1 == IF respBody.kind = "invalid" THEN Throw(m, "SyntaxError") ELSE m
        m2 == Store(m1, USER_TOKEN, respBody.token)
        m3 == IF respBody.user # "object" THEN Throw(m2, "TypeError") ELSE m2
        m4 == Store(m3, TOKEN_EXPIRATION, ExpString(respBody.exp))
        m5 == Purge(Store(m4, USER_OBJ, UserJson(respBody.exp)), STATE_LOGIN)
        m6 == Callback(m5, Null, respBody.token)
        e == Callback(m, FailureMessage, Null)
        r == IF Succeeded(status, respBody) THEN m6 ELSE e
    IN  IF r.threw = "none" THEN [r EXCEPT !.ctx.actionInProgress = FALSE] ELSE r

HandleServiceResponse(m, status, respBody) ==
    LET m1 == IF respBody.kind = "invalid" THEN Throw(m, "SyntaxError") ELSE m
        m2 == Store(m1, USER_TOKEN, respBody.token)
        m3 == IF respBody.user # "object" THEN Throw(m2, "TypeError") ELSE m2
        m4 == Store(m3, TOKEN_EXPIRATION, ExpString(respBody.exp))
        m5 == Store(m4, USER_OBJ, UserJson(respBody.exp))
        m6 == Callback(m5, Null, respBody.token)
        e == Callback(m, FailureMessage, Null)
        r == IF Succeeded(status, respBody) THEN m6 ELSE e
    IN  IF r.threw = "none" THEN [r EXCEPT !.ctx.actionInProgress = FALSE] ELSE r

\* --------------------------------------------- getters, lines 311-333
\* the numbers a stored expiry may denote
ExpRange == (0 - 1)..(MaxNow + 2)

\* parseInt of a stored value: [nan, n]
ParseInt(v) ==
    IF \E n \in ExpRange : v = ExpString(n)
    THEN [nan |-> FALSE, n |-> CHOOSE n \in ExpRange : v = ExpString(n)]
    ELSE [nan |-> TRUE, n |-> 0]

\* a - b on numbers that may be NaN
Minus(a, b) == IF a.nan THEN a ELSE [nan |-> FALSE, n |-> a.n - b]

\* getToken purging the token it has returned
GetTokenRunReadOnce ==
    LET m == Get(Run(stores, ctx), USER_TOKEN) IN
    [run |-> Purge(m, USER_TOKEN),
     ret |-> IF m.threw = "none" THEN GetValue(m, USER_TOKEN) ELSE Undefined]

\* getToken, lines 311-313: [run, returned value]
GetTokenRun ==
    LET m == Get(Run(stores, ctx), USER_TOKEN) IN
    [run |-> m, ret |-> IF m.threw = "none" THEN GetValue(m, USER_TOKEN) ELSE Undefined]

\* getTokenExpirationInSeconds, lines 331-333, at clock value now
GetTokenExpirationInSecondsRun(now) ==
    LET m == Get(Run(stores, ctx), TOKEN_EXPIRATION) IN
    [run |-> m,
     ret |-> IF m.threw = "none"
             THEN Minus(ParseInt(GetValue(m, TOKEN_EXPIRATION)), now)
             ELSE [nan |-> TRUE, n |-> 0]]

\* line 320: this._config is never assigned, so reading _config.storeToken
\* throws
ReadConfigStoreToken(m) == Throw(m, "TypeError")

\* getUserInformation, lines 319-325: line 320 throws, so neither branch of
\* lines 321-324 is reached
GetUserInformationRun ==
    [run |-> ReadConfigStoreToken(Run(stores, ctx)), ret |-> Undefined]

\* isTokenExpired with a comparison that also accepts zero
IsTokenExpiredRunNonNegative(now) ==
    LET m == Get(Run(stores, ctx), TOKEN_EXPIRATION)
        d == Minus(ParseInt(GetValue(m, TOKEN_EXPIRATION)), now) IN
    [run |-> m, ret |-> m.threw = "none" /\ ~d.nan /\ d.n >= 0]

\* isTokenExpired, lines 327-329, at clock value now: a comparison with NaN
\* is false
IsTokenExpiredRun(now) ==
    LET m == Get(Run(stores, ctx), TOKEN_EXPIRATION)
        d == Minus(ParseInt(GetValue(m, TOKEN_EXPIRATION)), now) IN
    [run |-> m, ret |-> m.threw = "none" /\ ~d.nan /\ d.n > 0]

\* isActionInProgress, lines 298-304: the read of the flag cannot throw
IsActionInProgressRun == [run |-> Run(stores, ctx), ret |-> ctx.actionInProgress]

\* ------------------------------------------------ logout, lines 339-355
\* line 343 reads this.STORAGE, which is undefined, for the first key
PurgeAll(m) == IF STORAGE # {} THEN Throw(m, "TypeError") ELSE m

\* line 349 calls this.promptUser, which is not defined
PromptUser(m, url) == Throw(m, "TypeError")

\* _generateAzureLogoutURL, lines 508-514
GenerateAzureLogoutURL(c) ==
    c.azureInstance \o c.azureTenant \o <<"/", "oauth2", "/", "logout", "?">>
    \o (IF Falsy(c.azureLogoutRedirectUri) THEN Empty
        ELSE <<"post_logout_redirect_uri", "=">> \o Encode(c.azureLogoutRedirectUri))

LogoutRun(callback) ==
    LET m1 == PurgeAll(Run(stores, ctx))
        m2 == IF m1.ctx.config.logoutGlobalAzure = "true"
              THEN PromptUser(m1, GenerateAzureLogoutURL(m1.ctx.config)) ELSE m1
    IN  IF callback THEN Callback(m2, Null, Null) ELSE m2

\* ------------------------------------------------------------- fragments
\* the values window.location.hash may have when authorize reads it
Hashes ==
    { <<>>,
      <<"#", "state", "=", "u1">>,
      <<"#", "id_token", "=", "J1", "&", "state", "=", "u1">>,
      <<"#", "/", "id_token", "=", "J1", "&", "state", "=", "u2">>,
      <<"#", "id_token", "=", "J1">>,
      <<"#", "auth_token", "=", "A1", "&", "state", "=", "u1">>,
      <<"#", "access_token", "=", "A1", "&", "state", "=", "u1">>,
      <<"#", "error", "=", "denied", "&", "error_description", "=",
        "no", "+", "consent", "%2B", "&", "state", "=", "u1">>,
      <<"#", "error_description", "=", "oops">> }

\* ------------------------------------------------------------------ actions
InitIn(envs) ==
    /\ env \in envs
    /\ stores = [local |-> EmptyStore, session |-> EmptyStore]
    /\ singleton = 0
    /\ ref = 0
    /\ ctx = NoCtx
    /\ pending = <<>>
    /\ other = NoTab
    /\ last = [ op |-> "load", arg |-> Undefined, threw |-> "none",
                ret |-> 0, access |-> <<>>, cbs |-> <<>>, posts |-> <<>>,
                navs |-> <<>> ]

\* the browser loads a page of the application (after a navigation, a redirect
\* back from the provider, or a reload): the script starts afresh, the stores
\* persist, requests in flight are dropped
PageLoad ==
    /\ singleton' = 0
    /\ ref' = 0
    /\ ctx' = NoCtx
    /\ pending' = <<>>
    /\ last' = Observe("load", Undefined, Run(stores, NoCtx), 0)
    /\ UNCHANGED <<env, stores, other>>

\* a method call on the object the caller holds: the run's effects
Call(op, arg, m, ret) ==
    /\ ref # 0
    /\ Len(pending) + Len(m.posts) <= MaxPending
    /\ stores' = m.stores
    /\ ctx' = m.ctx
    /\ pending' = pending \o m.posts
    /\ last' = Observe(op, arg, m, ret)
    /\ UNCHANGED <<env, singleton, ref, other>>

Login(startPage, href, expectedState, nonce) ==
    Call("login", [startPage |-> startPage, href |-> href],
         LoginRun(startPage, href, expectedState, nonce), Undefined)

Authorize(h, callback) ==
    Call("authorize", [hash |-> h, callback |-> callback], AuthorizeRun(h, callback),
         Undefined)

Renew(callback) == Call("renew", callback, RenewRun(callback), Undefined)

Logout(callback) == Call("logout", callback, LogoutRun(callback), Undefined)

GetToken == Call("getToken", Undefined, GetTokenRun.run, GetTokenRun.ret)

IsActionInProgress ==
    Call("isActionInProgress", Undefined, IsActionInProgressRun.run,
         IsActionInProgressRun.ret)

GetTokenExpirationInSeconds(now) ==
    LET r == GetTokenExpirationInSecondsRun(now) IN
    Call("getTokenExpirationInSeconds", now, r.run, r.ret)

GetUserInformation ==
    Call("getUserInformation", Undefined, GetUserInformationRun.run,
         GetUserInformationRun.ret)

IsTokenExpired(now) ==
    LET r == IsTokenExpiredRun(now) IN Call("isTokenExpired", now, r.run, r.ret)

\* the exchange service answers request i: onreadystatechange, lines 203-207
XhrDone(i, status, respBody) ==
    /\ i \in 1..Len(pending)
    /\ LET m == HandleServiceResponse(Run(stores, ctx), status, respBody) IN
       /\ stores' = m.stores
       /\ ctx' = m.ctx
       /\ last' = Observe("response", [request |-> pending[i], status |-> status,
                                       respBody |-> respBody], m, Undefined)
    /\ pending' = [j \in 1..(Len(pending) - 1) |->
                      IF j < i THEN pending[j] ELSE pending[j + 1]]
    /\ UNCHANGED <<env, singleton, ref, other>>

\* ------------------------------------------- the state parameter's journey
\* the characters a state value is made of: hex digits and the hyphen of an
\* identifier, and the characters the query-string syntax gives a meaning to
StateAtoms == {"a", "4", "-", "+", " ", "&", "=", "#", "/"}

StateValues == UNION { [1..n -> StateAtoms] : n \in 0..MaxStateLen }

\* position of the "&state=" of a query string, 0 if it has none
RECURSIVE FindState(_, _)
FindState(url, from) ==
    IF from + 2 > Len(url) THEN 0
    ELSE IF url[from] = "&" /\ url[from + 1] = "state" /\ url[from + 2] = "="
    THEN from
    ELSE FindState(url, from + 1)

\* the fragment of the provider's redirect back: the id token and the state
\* parameter of the login URL, echoed as it was sent
EchoFragment(url) ==
    LET i == FindState(url, 1) IN
    <<"#", "id_token", "=", "J1">>
    \o (IF i = 0 THEN Empty ELSE SubSeq(url, i, ValueEnd(url, i + 3) - 1))

\* The state value is serialized into a login URL (line 482), the provider
\* echoes it, and the fragment is parsed as authorize parses it (lines
\* 171-172).
RoundTrip ==
    /\ last.op = "state"
    /\ LET state == last.arg
           c == Defaults(GoodConfig, PageUrl)
           g == GenerateAzureLoginURL(c, "id_token", Params(c, state, S("r1")),
                                      Undefined)
           d == Deserialize(GetHash(EchoFragment(g.url)))
       IN  last' = [ op |-> "roundTrip", arg |-> state,
                     threw |-> IF g.threw # "none" THEN g.threw ELSE d.threw,
                     ret |-> Field(d.obj, S("state")),
                     access |-> <<>>, cbs |-> <<>>, posts |-> <<>>,
                     navs |-> <<g.url>> ]
    /\ UNCHANGED <<env, stores, singleton, ref, ctx, pending, other>>

\* The flows of a page that constructs its context from a valid configuration,
\* in a browser where both stores work and the page binds logoutGlobalAzure.
FlowEnv == [global |-> "name", local |-> "ok", session |-> "ok"]

\* the calls of authorize: every fragment with a callback, two without
AuthorizeCalls ==
    (Hashes \X {TRUE})
    \cup { <<Empty, FALSE>>,
           << <<"#", "id_token", "=", "J1", "&", "state", "=", "u1">>, FALSE >> }

Init == InitIn({FlowEnv})

Next ==
    \/ New(GoodConfig, PageUrl)
    \/ PageLoad
    \/ \E startPage \in StartPages, p \in UuidPairs :
          Login(startPage, PageUrl, p[1], p[2])
    \/ \E a \in AuthorizeCalls : Authorize(a[1], a[2])
    \/ \E callback \in BOOLEAN : Renew(callback)
    \/ \E callback \in BOOLEAN : Logout(callback)
    \/ GetToken
    \/ IsActionInProgress
    \/ \E now \in 0..MaxNow : GetTokenExpirationInSeconds(now)
    \/ \E now \in {0, MaxNow + 1} : IsTokenExpired(now)
    \/ GetUserInformation
    \/ \E i \in 1..MaxPending, r \in Responses : XhrDone(i, r[1], r[2])

Spec == Init /\ [][Next]_vars

\* The user brings the other tab to the foreground: its page runs from now on,
\* the page of this tab keeps its objects and its requests in flight.  Both
\* pages share localStorage (and, the second tab being opened from the first,
\* start from the same sessionStorage).
SwitchTab ==
    /\ singleton' = other.singleton
    /\ ref' = other.ref
    /\ ctx' = other.ctx
    /\ pending' = other.pending
    /\ other' = [singleton |-> singleton, ref |-> ref, ctx |-> ctx,
                 pending |-> pending]
    /\ last' = Observe("switch", Undefined, Run(stores, other.ctx), Undefined)
    /\ UNCHANGED <<env, stores>>

\* the fragments of the provider's answers to the logins of the two tabs
TabHashes ==
    { <<"#", "id_token", "=", "J1", "&", "state", "=", "u1">>,
      <<"#", "/", "id_token", "=", "J1", "&", "state", "=", "u2">> }

\* Two tabs of one browser running the application side by side.
NextTabs ==
    \/ New(GoodConfig, PageUrl)
    \/ SwitchTab
    \/ \E p \in UuidPairs : Login(Undefined, PageUrl, p[1], p[2])
    \/ \E h \in TabHashes : Authorize(h, TRUE)
    \/ \E i \in 1..MaxPending : XhrDone(i, 500, Body("empty", Undefined, "absent", 0))

SpecTabs == Init /\ [][NextTabs]_vars

\* The flows when the exchange service answers every request: a request in
\* flight reaches readyState DONE and its onreadystatechange handler runs.
Responded == \E i \in 1..MaxPending, r \in Responses : XhrDone(i, r[1], r[2])

SpecLive == Init /\ [][Next]_vars /\ WF_vars(Responded)

\* Construction: every host environment and every configuration.
InitCtor == InitIn(Envs)

NextCtor ==
    \/ \E config \in Configs, href \in Hrefs : New(config, href)
    \/ PageLoad
    \/ \E p \in UuidPairs : Login(Undefined, PageUrl, p[1], p[2])
    \/ Renew(TRUE)
    \/ \E callback \in BOOLEAN : Logout(callback)
    \/ GetToken

SpecCtor == InitCtor /\ [][NextCtor]_vars

\* The state parameter: every state value, serialized and parsed back.
InitRoundTrip ==
    /\ env = FlowEnv
    /\ stores = [local |-> EmptyStore, session |-> EmptyStore]
    /\ singleton = 0
    /\ ref = 0
    /\ ctx = NoCtx
    /\ pending = <<>>
    /\ other = NoTab
    /\ \E state \in StateValues :
          last = [ op |-> "state", arg |-> state, threw |-> "none",
                   ret |-> Undefined, access |-> <<>>, cbs |-> <<>>,
                   posts |-> <<>>, navs |-> <<>> ]

NextRoundTrip == RoundTrip

SpecRoundTrip == InitRoundTrip /\ [][NextRoundTrip]_vars

\* The identifier generator: every random input of the sample, on both paths.
InitUuid ==
    /\ env = FlowEnv
    /\ stores = [local |-> EmptyStore, session |-> EmptyStore]
    /\ singleton = 0
    /\ ref = 0
    /\ ctx = NoCtx
    /\ pending = <<>>
    /\ other = NoTab
    /\ \E arg \in { [crypto |-> TRUE, random |-> b] : b \in Buffers }
                 \cup { [crypto |-> FALSE, random |-> r] : r \in RandomDigits } :
          last = [ op |-> "random", arg |-> arg, threw |-> "none",
                   ret |-> Undefined, access |-> <<>>, cbs |-> <<>>,
                   posts |-> <<>>, navs |-> <<>> ]

NextUuid == GenerateUuid

SpecUuid == InitUuid /\ [][NextUuid]_vars


\* The parser: every fragment of up to MaxPairs segments, a segment being
\* key=value or a bare word, the keys with two spellings of the same decoded
\* key, the values empty, plain, or holding "=" and an escape.
Segment(k, v, eq) == [key |-> k, value |-> v, eq |-> eq]

Segments ==
    { Segment(k, v, TRUE) :
          k \in { <<"a">>, <<"a", "+">>, <<"a", "%20">> },
          v \in { Empty, <<"1">>, <<"x", "=", "%26">> } }
    \cup { Segment(<<"b">>, Empty, FALSE) }

Fragments ==
    UNION { [1..n -> Segments] : n \in 0..MaxPairs }

\* the segments joined by "&", as the data _deserialize is called with
RECURSIVE QueryString(_)
QueryString(segs) ==
    IF segs = <<>> THEN Empty
    ELSE LET seg == Head(segs)
             text == seg.key \o (IF seg.eq THEN <<"=">> \o seg.value ELSE Empty)
         IN  IF Len(segs) = 1 THEN text
             ELSE text \o <<"&">> \o QueryString(Tail(segs))

InitDeserialize ==
    /\ env = FlowEnv
    /\ stores = [local |-> EmptyStore, session |-> EmptyStore]
    /\ singleton = 0
    /\ ref = 0
    /\ ctx = NoCtx
    /\ pending = <<>>
    /\ other = NoTab
    /\ \E segs \in Fragments :
          last = [ op |-> "fragment", arg |-> segs, threw |-> "none",
                   ret |-> Undefined, access |-> <<>>, cbs |-> <<>>,
                   posts |-> <<>>, navs |-> <<>> ]

\* this._deserialize(data), lines 435-449
DeserializeCall ==
    /\ last.op = "fragment"
    /\ LET d == Deserialize(QueryString(last.arg)) IN
       last' = [ op |-> "deserialize", arg |-> last.arg, threw |-> d.threw,
                 ret |-> d.obj, access |-> <<>>, cbs |-> <<>>,
                 posts |-> <<>>, navs |-> <<>> ]
    /\ UNCHANGED <<env, stores, singleton, ref, ctx, pending, other>>

NextDeserialize == DeserializeCall

SpecDeserialize == InitDeserialize /\ [][NextDeserialize]_vars


\* ==================================================================== claims
Constructed == ref # 0 /\ ctx.storage # "none"

\* the keys and values of the fragment h, as authorize parses it
Parsed(h) == Deserialize(GetHash(h)).obj

\* the value persisted under key in the store the context uses
Persisted(st, key) == st[ctx.storage][key]

\* a configuration that lacks the tenant id, the application id, the
\* login-exchange endpoint or the renew-exchange endpoint
LacksRequiredField(c) ==
    \/ Blank(c.azureTenant)
    \/ Blank(c.azureAppID)
    \/ c.authorizationServiceLoginUri \in {Undefined, Null, Empty}
    \/ c.authorizationServiceRenewUri \in {Undefined, Null, Empty}

RequiredFieldErrors ==
    { "Tenant must be defined", "An App Id must be supplied",
      "Authorization Service login endpoint is required",
      "Authorization Service renew endpoint is required" }

\* ---------------------------------------------------------------------- C1
\* C1 (as claimed): the first construction on a page, given a non-blank tenant
\* and application id, both exchange endpoints and an available backend,
\* completes without throwing and yields a context with the defaults applied,
\* a storage backend selected and the action-in-progress flag false.
C1_FirstConstructionCompletes ==
    ( /\ last.op = "new"
      /\ last.arg.this = 1
      /\ ~LacksRequiredField(last.arg.config)
      /\ env[Backend(Defaults(last.arg.config, last.arg.href))] = "ok" )
    => ( /\ last.threw = "none"
         /\ last.ret = 1
         /\ ctx.storage = Backend(Defaults(last.arg.config, last.arg.href))
         /\ ~ctx.actionInProgress
         /\ ~Blank(ctx.config.azureInstance)
         /\ ~Falsy(ctx.config.azureLoginRedirectUri)
         /\ ~Falsy(ctx.config.azureLogoutRedirectUri)
         /\ ~Blank(ctx.config.cacheLocation) )

\* ---------------------------------------------------------------------- C2
\* C2 (as claimed): every constructor call whose configuration lacks a
\* required field throws, having made no storage or network access, also when
\* an earlier construction has taken place.
C2_EveryInvalidConstructionFails ==
    (last.op = "new" /\ LacksRequiredField(last.arg.config))
    => (last.threw # "none" /\ last.access = <<>> /\ last.posts = <<>>)

\* C2 (amended): a constructor call made while no instance is registered on
\* the page, with a configuration that lacks a required field, throws one of
\* the required-field errors, having made no storage or network access and
\* selected no backend; a call made after an earlier construction does not
\* validate its configuration and does not throw.
C2_FirstInvalidConstructionFails ==
    /\ (last.op = "new" /\ last.arg.this = 1 /\ LacksRequiredField(last.arg.config))
       => ( /\ last.threw \in RequiredFieldErrors
            /\ last.access = <<>> /\ last.posts = <<>> /\ last.navs = <<>>
            /\ ctx.storage = "none" )
    /\ (last.op = "new" /\ last.arg.this # 1) => last.threw = "none"

C2_Witness ==
    /\ last.op = "new" /\ last.arg.this = 1
    /\ last.threw = "Authorization Service renew endpoint is required"

\* ---------------------------------------------------------------------- C3
\* C3: once an instance is registered on a page, every constructor call
\* returns that instance and leaves the registration and the instance's
\* configuration, storage selection and in-progress flag unchanged, whatever
\* configuration it is passed; no second instance is ever registered.
C3_SingletonReturnedUnchanged ==
    [][ (singleton # 0 /\ last'.op = "new")
        => ( /\ singleton' = singleton
             /\ singleton = 1
             /\ ctx' = ctx
             /\ ref' = singleton
             /\ last'.ret = singleton
             /\ last'.threw = "none"
             /\ stores' = stores ) ]_vars

C3_Witness ==
    /\ last.op = "new" /\ last.arg.this = 2 /\ last.ret = 1
    /\ ctx.actionInProgress
    /\ ctx.storage = "session"
    /\ last.arg.config.azureTenant = Undefined


\* ---------------------------------------------------------------------- C4
\* a login call that was not suppressed has touched the store or thrown
LoginRan == last.op = "login" /\ (last.access # <<>> \/ last.navs # <<>> \/ last.threw # "none")

\* C4 (as claimed): of two login calls in succession on a constructed context,
\* the first not suppressed, exactly one navigates (the first), and the second
\* makes no storage access and leaves the persisted values as the first wrote
\* them.
C4_TwoLoginsOneNavigation ==
    [][ (Constructed /\ LoginRan /\ last'.op = "login")
        => ( /\ Len(last.navs) = 1
             /\ last'.navs = <<>>
             /\ last'.access = <<>>
             /\ stores' = stores ) ]_vars

\* ---------------------------------------------------------------------- C5
\* C5: a login call made while the action-in-progress flag is true returns
\* without writing or reading any storage key, without changing the flag or
\* the in-memory state and nonce, and without navigating.
C5_LoginSuppressedIsNoOp ==
    [][ (ref # 0 /\ ctx.actionInProgress /\ last'.op = "login")
        => ( /\ stores' = stores
             /\ ctx' = ctx
             /\ pending' = pending
             /\ last'.access = <<>>
             /\ last'.navs = <<>>
             /\ last'.posts = <<>>
             /\ last'.threw = "none" ) ]_vars

C5_Witness ==
    /\ Constructed
    /\ last.op = "login" /\ last.access = <<>>
    /\ ctx.actionInProgress
    /\ Persisted(stores, STATE_LOGIN) # Null

\* ---------------------------------------------------------------------- C6
\* C6 (as claimed): a login call made on a constructed context while no action
\* is in progress persists the originating page (startPage, or the current
\* URL), the state and the nonce it generated, sets the persisted error code
\* and description to empty, sets the flag and navigates exactly once.
C6_LoginPersistsAndNavigates ==
    [][ (Constructed /\ ~ctx.actionInProgress /\ last'.op = "login")
        => ( /\ Persisted(stores', LOGIN_REQUEST) =
                    (IF Falsy(last'.arg.startPage) THEN last'.arg.href
                     ELSE last'.arg.startPage)
             /\ Persisted(stores', STATE_LOGIN) = ctx'.config.state
             /\ Persisted(stores', NONCE_IDTOKEN) = ctx'.idTokenNonce
             /\ Persisted(stores', STORAGE_ERROR) = Empty
             /\ Persisted(stores', STORAGE_ERROR_DESCRIPTION) = Empty
             /\ ctx'.actionInProgress
             /\ Len(last'.navs) = 1 ) ]_vars

\* ---------------------------------------------------------------------- C7
\* the field names of a provider response: the token and error fields
CallbackFields ==
    { S("error"), ERROR_DESCRIPTION, S("access_token"), ACCESS_TOKEN, ID_TOKEN }

NoCallbackField(h) == DOMAIN Parsed(h) \cap CallbackFields = {}

\* C7: an authorize call on a page whose fragment holds none of the token and
\* error fields writes and reads no storage key, sends no request, leaves the
\* in-progress flag unchanged and does not invoke the callback.
C7_AuthorizeNoOpWithoutCallbackFields ==
    [][ (ref # 0 /\ last'.op = "authorize" /\ NoCallbackField(last'.arg.hash))
        => ( /\ stores' = stores
             /\ ctx' = ctx
             /\ pending' = pending
             /\ last'.access = <<>>
             /\ last'.posts = <<>>
             /\ last'.cbs = <<>>
             /\ last'.navs = <<>> ) ]_vars

C7_Witness ==
    /\ Constructed
    /\ last.op = "authorize" /\ last.arg.callback /\ last.threw = "none"
    /\ last.arg.hash = <<"#", "state", "=", "u1">>
    /\ Persisted(stores, STATE_LOGIN) = S("u1")
    /\ ctx.actionInProgress

\* ---------------------------------------------------------------------- C8
\* the fragment h has no error field, a state equal to the persisted login
\* state and an ID token
ExchangeFragment(h, st) ==
    LET obj == Parsed(h) IN
    /\ ~Has(obj, S("error")) /\ ~Has(obj, ERROR_DESCRIPTION)
    /\ Has(obj, S("state")) /\ obj[S("state")] = Persisted(st, STATE_LOGIN)
    /\ Has(obj, ID_TOKEN) /\ ~Falsy(obj[ID_TOKEN])

\* C8: an authorize call with a callback, on a constructed context and a
\* fragment with no error field, the persisted login state and an ID token,
\* sends exactly one POST, to the configured login-exchange endpoint, carrying
\* the ID token as authorization_token and the configured contexts, and has
\* not invoked the callback when it sends it.
C8_AuthorizePostsIdToken ==
    [][ ( /\ Constructed
          /\ last'.op = "authorize" /\ last'.arg.callback
          /\ ExchangeFragment(last'.arg.hash, stores) )
        => ( /\ last'.posts =
                   << [ url |-> ctx.config.authorizationServiceLoginUri,
                        authorization_token |-> Parsed(last'.arg.hash)[ID_TOKEN],
                        contexts |-> ctx.config.authorizationContexts,
                        cbBefore |-> 0 ] >>
             /\ pending' = pending \o last'.posts ) ]_vars

C8_Witness ==
    /\ last.op = "authorize"
    /\ Len(last.posts) = 1
    /\ last.posts[1].url = LoginUri
    /\ last.posts[1].authorization_token = S("J1")
    /\ last.posts[1].contexts = S("ctx1")
    /\ Len(pending) = 1

\* ---------------------------------------------------------------------- C9
\* a response body {token: T, user: {exp: E, ...}}
FullBody(b) == b.kind = "json" /\ b.token # Undefined /\ b.user = "object"

\* the handler treats the response as a success (status 200, non-empty body)
SuccessResponse(l) ==
    l.op = "response" /\ l.arg.status = 200 /\ l.arg.respBody.kind # "empty"

MismatchFragment(h, st) ==
    LET obj == Parsed(h) IN
    /\ IsCallback(obj)
    /\ ~Has(obj, S("state")) \/ obj[S("state")] # Persisted(st, STATE_LOGIN)

\* the state the fragment carries, empty when it has none
StateOf(h) == IF Has(Parsed(h), S("state")) THEN Parsed(h)[S("state")] ELSE Empty

PersistsInvalidState(h, st) ==
    /\ Persisted(st, STORAGE_ERROR) = S("Invalid State")
    /\ Persisted(st, STORAGE_ERROR_DESCRIPTION) = S("Invalid State, state: ") \o StateOf(h)

\* C10 (as claimed): on every provider response whose state is not the
\* persisted login state, authorize persists the error 'Invalid State' and a
\* description holding the mismatched value, and sends no request.
C10_EveryMismatchPersistsInvalidState ==
    [][ ( /\ Constructed
          /\ last'.op = "authorize" /\ last'.arg.callback
          /\ MismatchFragment(last'.arg.hash, stores) )
        => ( /\ PersistsInvalidState(last'.arg.hash, stores')
             /\ last'.posts = <<>> /\ pending' = pending ) ]_vars

\* C10 (amended): on every provider response whose state is not the persisted
\* login state, authorize sends no request; when the response has no
\* error-description field, it persists the error 'Invalid State' and a
\* description holding the mismatched value.
C10_MismatchWithoutErrorPersistsInvalidState ==
    [][ ( /\ Constructed
          /\ last'.op = "authorize" /\ last'.arg.callback
          /\ MismatchFragment(last'.arg.hash, stores) )
        => ( /\ last'.posts = <<>> /\ pending' = pending
             /\ ~Has(Parsed(last'.arg.hash), ERROR_DESCRIPTION)
                   => PersistsInvalidState(last'.arg.hash, stores') ) ]_vars

C10_Witness ==
    /\ Constructed
    /\ last.op = "authorize" /\ last.posts = <<>>
    /\ last.arg.hash = <<"#", "/", "id_token", "=", "J1", "&", "state", "=", "u2">>
    /\ Persisted(stores, STATE_LOGIN) = S("u1")
    /\ Persisted(stores, STORAGE_ERROR) = S("Invalid State")
    /\ Persisted(stores, STORAGE_ERROR_DESCRIPTION) = <<"Invalid State, state: ", "u2">>

\* --------------------------------------------------------------------- C11
\* C11 (as claimed): after a logout call none of the namespaced storage keys
\* holds a value.
C11_LogoutPurgesEveryKey ==
    (Constructed /\ last.op = "logout")
    => \A k \in STORAGE : Persisted(stores, k) = Null

\* --------------------------------------------------------------------- C12
\* the invocations of the callback of one call: those made by the call itself
\* and, once its request is answered, those made before the request was sent
\* plus those the response handler makes
C12_CallbackAtMostOncePerCall ==
    /\ last.op \in {"authorize", "renew"} => Len(last.cbs) <= 1
    /\ last.op = "response" => last.arg.request.cbBefore + Len(last.cbs) <= 1

\* --------------------------------------------------------------------- C13
\* C13 (as claimed): renew called with a callback sets the in-progress flag
\* and sends one POST to the renew endpoint carrying the persisted token.
C13_RenewPostsPersistedToken ==
    (Constructed /\ last.op = "renew" /\ last.arg)
    => ( /\ ctx.actionInProgress
         /\ Len(last.posts) = 1
         /\ last.posts[1].url = ctx.config.authorizationServiceRenewUri
         /\ last.posts[1].authorization_token = Persisted(stores, USER_TOKEN) )

\* --------------------------------------------------------------------- C14
\* C14 (as claimed): after the service-response handler has handled a
\* response, whatever its status and body, the in-progress flag is false.
C14_HandlerClearsFlag ==
    last.op = "response" => ~ctx.actionInProgress

\* --------------------------------------------------------------------- C15
\* C15 (as claimed): on a response with status 200 and a non-empty body the
\* handler persists the token, the expiry and the serialized profile of the
\* response and invokes the callback exactly once, with (null, token).
C15_SuccessPersistsAndCallsBack ==
    ( /\ Constructed /\ last.op = "response"
      /\ last.arg.status = 200 /\ last.arg.respBody.kind # "empty" )
    => ( /\ last.threw = "none"
         /\ Persisted(stores, USER_TOKEN) = last.arg.respBody.token
         /\ Persisted(stores, TOKEN_EXPIRATION) = ExpString(last.arg.respBody.exp)
         /\ Persisted(stores, USER_OBJ) = UserJson(last.arg.respBody.exp)
         /\ last.cbs = << <<Null, last.arg.respBody.token>> >> )

\* --------------------------------------------------------------------- C16
\* C16: on a response with a status other than 200, or with an empty body, the
\* handler invokes the callback once with (errorMessage, null), makes no
\* storage access and leaves every persisted value, the token, the expiry and
\* the profile among them, unchanged.
C16_FailureCallsBackAndKeepsToken ==
    [][ ( /\ last'.op = "response"
          /\ last'.arg.status # 200 \/ last'.arg.respBody.kind = "empty" )
        => ( /\ last'.cbs = << <<FailureMessage, Null>> >>
             /\ last'.access = <<>>
             /\ last'.threw = "none"
             /\ stores' = stores ) ]_vars

C16_Witness ==
    /\ last.op = "response" /\ last.arg.status = 500
    /\ last.arg.respBody.token = S("T1")
    /\ last.cbs = << <<FailureMessage, Null>> >>
    /\ Persisted(stores, USER_TOKEN) = S("T2")
    /\ Persisted(stores, TOKEN_EXPIRATION) = ExpString(MaxNow + 1)

\* --------------------------------------------------------------------- C17
\* C17: authorize and renew called without a function as callback throw at
\* once; the call makes no storage access, sends no request, invokes nothing
\* and leaves the stores, the in-progress flag and the rest of the object
\* unchanged.
C17_NoCallbackFailsWithoutEffect ==
    [][ ( \/ last'.op = "authorize" /\ ~last'.arg.callback
          \/ last'.op = "renew" /\ ~last'.arg )
        => ( /\ last'.threw = NoCallbackMessage
             /\ last'.access = <<>> /\ last'.posts = <<>>
             /\ last'.cbs = <<>> /\ last'.navs = <<>>
             /\ stores' = stores /\ pending' = pending
             /\ ctx' = ctx ) ]_vars

C17_Witness ==
    /\ Constructed
    /\ last.op = "authorize" /\ ~last.arg.callback
    /\ last.arg.hash = <<"#", "id_token", "=", "J1", "&", "state", "=", "u1">>
    /\ Persisted(stores, STATE_LOGIN) = S("u1")
    /\ last.threw = NoCallbackMessage

\* --------------------------------------------------------------------- C18
\* C18: isTokenExpired returns true exactly when the stored expiry minus the
\* clock value is strictly positive (false when it is zero, negative or not a
\* number), which is whether getTokenExpirationInSeconds, called in the same
\* state at the same clock value, returns a number greater than zero.
C18_IsTokenExpiredIsPositiveRemaining ==
    (Constructed /\ last.op = "isTokenExpired")
    => LET v == Persisted(stores, TOKEN_EXPIRATION)
           r == GetTokenExpirationInSecondsRun(last.arg).ret
       IN  /\ last.threw = "none"
           /\ last.ret = (\E n \in ExpRange : v = ExpString(n) /\ n - last.arg > 0)
           /\ last.ret = (~r.nan /\ r.n > 0)

C18_Witness ==
    /\ Constructed /\ last.op = "isTokenExpired"
    /\ Persisted(stores, TOKEN_EXPIRATION) = ExpString(MaxNow + 1)
    /\ last.arg = MaxNow + 1
    /\ last.ret = FALSE

\* --------------------------------------------------------------------- C19
\* C19 (as claimed): getUserInformation raises no error; with the store-token
\* flag not set in the configuration, as in every configuration built here,
\* it returns an empty result.
C19_GetUserInformationReturns ==
    (Constructed /\ last.op = "getUserInformation")
    => (last.threw = "none" /\ last.ret = Null)

\* --------------------------------------------------------------------- C20
\* C20 (as claimed): logout called with a function as callback invokes it
\* exactly once, with (null, null).
C20_LogoutCallsBackOnce ==
    (Constructed /\ last.op = "logout" /\ last.arg)
    => last.cbs = << <<Null, Null>> >>

IsHex(ch) == \E d \in 1..16 : HexDigits[d] = ch

\* C22: every identifier the generator produces, on the secure path and on
\* the fallback path, has 36 characters: hyphens at positions 9, 14, 19 and
\* 24, lowercase hex digits elsewhere, the digit 4 at position 15 and one of
\* 8, 9, a, b at position 20.
C22_UuidHasVersion4Form ==
    last.op = "uuid"
    => ( /\ Len(last.ret) = 36
         /\ \A i \in 1..36 :
               IF i \in {9, 14, 19, 24} THEN last.ret[i] = "-"
               ELSE IsHex(last.ret[i])
         /\ last.ret[15] = "4"
         /\ last.ret[20] \in {"8", "9", "a", "b"} )

C22_Witness ==
    /\ last.op = "uuid" /\ last.arg.crypto
    /\ last.arg.random[6] = MaxByte /\ last.arg.random[8] = 0
    /\ last.arg.random[0] = 9
    /\ SubSeq(last.ret, 1, 2) = <<"0", "9">>
    /\ SubSeq(last.ret, 15, 16) = <<"4", "f">>
    /\ SubSeq(last.ret, 20, 21) = <<"8", "0">>

\* --------------------------------------------------------------------- C23
\* the fragment h is a provider response without the error-description field
\* whose state is the persisted one
MatchingFragment(h, st) ==
    LET obj == Parsed(h) IN
    /\ IsCallback(obj) /\ ~Has(obj, ERROR_DESCRIPTION)
    /\ Has(obj, S("state")) /\ obj[S("state")] = Persisted(st, STATE_LOGIN)

\* C23 (as claimed): on a provider response with the persisted state and no
\* error that carries no id token, authorize invokes the callback with an
\* error and sends no request.
C23_NoIdTokenNoPost ==
    [][ ( /\ Constructed
          /\ last'.op = "authorize" /\ last'.arg.callback
          /\ MatchingFragment(last'.arg.hash, stores)
          /\ ~Has(Parsed(last'.arg.hash), ID_TOKEN) )
        => ( /\ Len(last'.cbs) = 1 /\ last'.cbs[1][1] # Null
             /\ last'.posts = <<>> /\ pending' = pending ) ]_vars

\* --------------------------------------------------------------------- C24
\* C24: on a fragment that carries the error-description field, authorize
\* persists the error code of the response (the text "undefined" when the
\* response has none) and its error description, sends no request and does
\* not invoke the callback, whether or not the state of the fragment is the
\* persisted one.
C24_ErrorPersistedWithoutCallback ==
    [][ ( /\ Constructed
          /\ last'.op = "authorize" /\ last'.arg.callback
          /\ Has(Parsed(last'.arg.hash), ERROR_DESCRIPTION) )
        => LET obj == Parsed(last'.arg.hash) IN
           /\ last'.threw = "none"
           /\ Persisted(stores', STORAGE_ERROR) =
                 (IF Has(obj, S("error")) THEN obj[S("error")] ELSE S("undefined"))
           /\ Persisted(stores', STORAGE_ERROR_DESCRIPTION) = obj[ERROR_DESCRIPTION]
           /\ last'.posts = <<>> /\ pending' = pending
           /\ last'.cbs = <<>> ]_vars

C24_Witness ==
    /\ Constructed
    /\ last.op = "authorize" /\ last.arg.callback
    /\ Has(Parsed(last.arg.hash), ERROR_DESCRIPTION)
    /\ Field(Parsed(last.arg.hash), S("state")) = Persisted(stores, STATE_LOGIN)
    /\ Persisted(stores, STORAGE_ERROR) = S("denied")
    /\ Persisted(stores, STORAGE_ERROR_DESCRIPTION) = <<"no", " ", "consent", "+">>
    /\ last.cbs = <<>> /\ last.posts = <<>>

\* --------------------------------------------------------------------- C25
\* C25: on a provider response without the error-description field whose
\* state is not the persisted login state, authorize does not invoke the
\* callback.
C25_MismatchNeverCallsBack ==
    [][ ( /\ Constructed
          /\ last'.op = "authorize" /\ last'.arg.callback
          /\ MismatchFragment(last'.arg.hash, stores)
          /\ ~Has(Parsed(last'.arg.hash), ERROR_DESCRIPTION) )
        => (last'.cbs = <<>> /\ last'.threw = "none") ]_vars

C25_Witness ==
    /\ Constructed
    /\ last.op = "authorize" /\ last.arg.callback
    /\ last.arg.hash = <<"#", "id_token", "=", "J1">>
    /\ Persisted(stores, STATE_LOGIN) = S("u1")
    /\ Persisted(stores, STORAGE_ERROR) = S("Invalid State")
    /\ last.cbs = <<>>

\* --------------------------------------------------------------------- C26
\* C26: in every reachable state and for every fragment that is a provider
\* response, the request metadata _getRequestInfo derives has type LOGIN
\* exactly when the fragment has a state equal to the persisted login state
\* and type UNKNOWN otherwise; stateMatch holds exactly then and implies
\* valid; a fragment without a state has stateMatch false and type UNKNOWN.
C26_RequestInfoOfCallback ==
    Constructed
    => \A h \in Hashes :
          LET obj == Parsed(h)
              ri == RequestInfo(Run(stores, ctx), obj)
              same == Has(obj, S("state"))
                      /\ obj[S("state")] = Persisted(stores, STATE_LOGIN)
          IN  IsCallback(obj)
              => ( /\ ri.requestType = REQUEST_TYPE.LOGIN <=> same
                   /\ ri.requestType = REQUEST_TYPE.UNKNOWN <=> ~same
                   /\ ri.stateMatch <=> same
                   /\ ri.stateMatch => ri.valid
                   /\ ri.valid )

C26_Witness ==
    /\ Constructed
    /\ Persisted(stores, STATE_LOGIN) = S("u2")
    /\ last.op = "authorize" /\ last.arg.callback
    /\ last.arg.hash = <<"#", "/", "id_token", "=", "J1", "&", "state", "=", "u2">>
    /\ RequestInfo(Run(stores, ctx), Parsed(last.arg.hash)).requestType
          = REQUEST_TYPE.LOGIN
    /\ Len(last.posts) = 1

C28_RenewWithoutTokenStillPosts ==
    ( /\ Constructed
      /\ last.op = "renew" /\ last.arg
      /\ Persisted(stores, USER_TOKEN) = Null )
    => ( /\ Len(last.cbs) >= 1 /\ last.cbs[1][1] # Null
         /\ Len(last.posts) = 1
         /\ last.posts[1].url = ctx.config.authorizationServiceRenewUri
         /\ Falsy(last.posts[1].authorization_token) )

\* --------------------------------------------------------------------- C29
\* C29 (as claimed): when every request sent is eventually answered, the
\* in-progress flag that a renew call has set eventually becomes false again.
C29_FlagEventuallyCleared ==
    (Constructed /\ last.op = "renew" /\ last.arg /\ ctx.actionInProgress)
    ~> ~ctx.actionInProgress

\* --------------------------------------------------------------------- C30
\* C30 (as claimed): every instance a constructor call returns has a
\* configuration with the required fields and a storage backend selected.
C30_ReturnedInstanceIsConstructed ==
    (last.op = "new" /\ last.ret # 0)
    => (~LacksRequiredField(ctx.config) /\ ctx.storage # "none")

\* --------------------------------------------------------------------- C31
\* a required field that is present but empty or made of whitespace only
HasBlankRequiredField(c) ==
    \E f \in { c.azureTenant, c.azureAppID, c.authorizationServiceLoginUri,
               c.authorizationServiceRenewUri } :
       f \notin {Undefined, Null} /\ Len(Trim(f)) = 0

\* C31 (as claimed): the first construction on a page with a configuration in
\* which a required field is present but blank fails with one of the
\* required-field errors.
C31_BlankRequiredFieldFails ==
    ( /\ last.op = "new" /\ last.arg.this = 1
      /\ HasBlankRequiredField(last.arg.config) )
    => last.threw \in RequiredFieldErrors

\* --------------------------------------------------------------------- C32
\* the storage selector is missing, blank or begins with "local" (in any case)
SelectsLocal(c) ==
    \/ Blank(c.cacheLocation)
    \/ c.cacheLocation[1] \in {"localStorage", "LocalStorage", "local", "LOCAL"}

\* C32 (as claimed): the first construction on a page with the required
\* fields set selects local persistence when the selector is missing, blank
\* or begins with "local" and session persistence otherwise; it probes that
\* backend only, and fails with the backend's error when it is unavailable.
C32_SelectsAndProbesBackend ==
    ( /\ last.op = "new" /\ last.arg.this = 1
      /\ ~LacksRequiredField(last.arg.config) )
    => LET which == IF SelectsLocal(last.arg.config) THEN "local" ELSE "session" IN
       /\ \A i \in 1..Len(last.access) : last.access[i][1] = which
       /\ last.access # <<>> \/ env[which] = "absent"
       /\ IF env[which] = "ok"
          THEN last.threw = "none" /\ ctx.storage = which
          ELSE /\ ctx.storage = "none"
               /\ last.threw = (IF which = "local" THEN "local storage is not supported"
                                ELSE "session storage is not supported")

C34_LoginKeysChangeOnlyInLogin ==
    [][ /\ (\E b \in {"local", "session"},
               k \in {STATE_LOGIN, NONCE_IDTOKEN, LOGIN_REQUEST} :
                  stores'[b][k] # stores[b][k])
           => last'.op \in {"login", "logout"}
        /\ ( /\ Constructed
             /\ last'.op = "authorize" /\ last'.arg.callback
             /\ MatchingFragment(last'.arg.hash, stores)
             /\ Has(Parsed(last'.arg.hash), ID_TOKEN) )
           => Len(last'.posts) = 1 ]_vars

C34_Witness ==
    /\ Constructed
    /\ last.op = "authorize" /\ Len(last.posts) = 1
    /\ last.arg.hash = <<"#", "/", "id_token", "=", "J1", "&", "state", "=", "u2">>
    /\ Persisted(stores, STATE_LOGIN) = S("u2")
    /\ Persisted(stores, USER_TOKEN) = S("T1")
    /\ Persisted(stores, USER_OBJ) = UserJson(1)

\* --------------------------------------------------------------------- C35
\* C35: the issued token, its expiry and the user profile are persisted
\* together: a step of the response handler either sets all three keys to the
\* values of the response it handles or leaves all three as they were.
C35_TokenKeysPersistedTogether ==
    [][ last'.op = "response"
        => LET b == last'.arg.respBody IN
           \/ /\ Persisted(stores', USER_TOKEN) = b.token
              /\ Persisted(stores', TOKEN_EXPIRATION) = ExpString(b.exp)
              /\ Persisted(stores', USER_OBJ) = UserJson(b.exp)
           \/ /\ Persisted(stores', USER_TOKEN) = Persisted(stores, USER_TOKEN)
              /\ Persisted(stores', TOKEN_EXPIRATION) = Persisted(stores, TOKEN_EXPIRATION)
              /\ Persisted(stores', USER_OBJ) = Persisted(stores, USER_OBJ) ]_vars

\* --------------------------------------------------------------------- C36
\* does the URL carry the query parameter name with the encoded value
Carries(url, name, value) ==
    LET part == <<name, "=">> \o Encode(value) IN
    \E i \in 2..Len(url) :
        /\ url[i - 1] \in {"?", "&"}
        /\ i + Len(part) - 1 <= Len(url)
        /\ SubSeq(url, i, i + Len(part) - 1) = part
        /\ (i + Len(part) <= Len(url) => url[i + Len(part)] = "&")

\* C36 (as claimed): a login call that is not suppressed navigates to a URL
\* that carries the state and the nonce the same call persisted, the
\* configured application id and the configured login redirect URI.
C36_LoginUrlCarriesPersistedState ==
    [][ (Constructed /\ ~ctx.actionInProgress /\ last'.op = "login")
        => /\ Len(last'.navs) = 1
           /\ Carries(last'.navs[1], "state", Persisted(stores', STATE_LOGIN))
           /\ Carries(last'.navs[1], "nonce", Persisted(stores', NONCE_IDTOKEN))
           /\ Carries(last'.navs[1], "client_id", ctx.config.azureAppID)
           /\ Carries(last'.navs[1], "redirect_uri", ctx.config.azureLoginRedirectUri) ]_vars

\* --------------------------------------------------------------------- C37
PureReads ==
    {"getToken", "isTokenExpired", "getTokenExpirationInSeconds", "isActionInProgress"}

\* C37: a call of getToken, isTokenExpired, getTokenExpirationInSeconds or
\* isActionInProgress changes no storage key and not the action-in-progress
\* flag, navigates nowhere and sends no request.
C37_ReadsChangeNothing ==
    [][ last'.op \in PureReads
        => /\ stores' = stores
           /\ ctx'.actionInProgress = ctx.actionInProgress
           /\ pending' = pending
           /\ last'.posts = <<>>
           /\ last'.navs = <<>> ]_vars

C37_Witness ==
    /\ Constructed
    /\ last.op = "getToken" /\ last.ret = S("T1")
    /\ Persisted(stores, USER_TOKEN) = S("T1")
    /\ ctx.actionInProgress

\* --------------------------------------------------------------------- C38
\* C38 (as claimed): on a context configured to end the provider session
\* too, logout purges every namespaced key and navigates once, to the
\* provider logout URL with the configured post-logout redirect URI; on any
\* other context logout does not navigate.
C38_LogoutNavigatesWhenGlobal ==
    [][ (Constructed /\ last'.op = "logout")
        => IF ctx.config.logoutGlobalAzure = "true"
           THEN /\ \A k \in STORAGE : Persisted(stores', k) = Null
                /\ last'.navs = <<GenerateAzureLogoutURL(ctx.config)>>
           ELSE last'.navs = <<>> ]_vars

\* --------------------------------------------------------------------- C39
\* the fields of the provider's redirect that mark a response: the error
\* description, the access token and the ID token
ProviderFields == { S("error_description"), S("access_token"), S("id_token") }

\* C39 (as claimed): the fragment an authorize call parses is classified as a
\* provider response exactly when it holds an error-description field, an
\* access-token field or an ID-token field.
C39_CallbackIffProviderField ==
    [][ (Constructed /\ last'.op = "authorize")
        => ( IsCallback(Parsed(last'.arg.hash))
             <=> DOMAIN Parsed(last'.arg.hash) \cap ProviderFields # {} ) ]_vars

\* --------------------------------------------------------------------- C40
\* the positions of the key=value segments of segs whose decoded key is k
Occurrences(segs, k) ==
    { i \in 1..Len(segs) : segs[i].eq /\ Decode(segs[i].key) = k }

LastOccurrence(segs, k) ==
    CHOOSE i \in Occurrences(segs, k) : \A j \in Occurrences(segs, k) : j <= i

\* C40: the object parsed from a fragment has an entry exactly for the
\* decoded keys of the fragment's key=value segments, and the entry of a key
\* is the decoded value of the last segment with that key.
C40_LastOccurrenceWins ==
    last.op = "deserialize"
    => LET segs == last.arg
           keys == { Decode(segs[i].key) : i \in { j \in 1..Len(segs) : segs[j].eq } }
       IN  /\ last.threw = "none"
           /\ DOMAIN last.ret = keys
           /\ \A k \in keys :
                 last.ret[k] = Decode(segs[LastOccurrence(segs, k)].value)

C40_Witness ==
    /\ last.op = "deserialize"
    /\ last.arg = << Segment(<<"a", "+">>, <<"1">>, TRUE),
                     Segment(<<"b">>, Empty, FALSE),
                     Segment(<<"a", "%20">>, <<"x", "=", "%26">>, TRUE) >>
    /\ DOMAIN last.ret = { <<"a", " ">> }
    /\ last.ret[<<"a", " ">>] = <<"x", "=", "&">>

====
